---- MODULE Spec2Model ----
(***************************************************************************)
(* The streaming audio playout engine of PromptDjApp (src/src/index.tsx):  *)
(* the chunk store, the decoded-buffer timeline, the scheduler of          *)
(* AudioBufferSourceNodes, the transport state and the seek controller.    *)
(*                                                                         *)
(* Time is counted in ticks of 0.5 s of the AudioContext clock, so the     *)
(* 1.0 s look-ahead (bufferTime) is 2 ticks and a buffer of 1.0 s lasts 2. *)
(***************************************************************************)
EXTENDS Integers, Sequences, FiniteSets, TLC

\* ---------------------------------------------------------------- bounds
MaxDuration == 2      \* longest chunk, in ticks (durations are 1..MaxDuration)

\* Spec: sessions that are reset and restarted
MaxChunks   == 2      \* audio chunks received in one run
MaxTime     == 4      \* last tick of the AudioContext clock that is explored
MaxSessions == 2      \* connectToSession calls in one run
MaxGestures == 3      \* user gestures (clicks, pointer events) in one run
MaxPending  == 2      \* decodes in flight at one time

\* StreamSpec: one session that streams for longer
StreamChunks   == 3
StreamTime     == 2
StreamSessions == 1
StreamGestures == 3
StreamPending  == 3

\* FailSpec: one session that streams five chunks
FailChunks   == 5
FailTime     == 1
FailSessions == 1
FailGestures == 3
FailPending  == 2
FailDuration == 1

\* ExportSpec: one short session whose chunks carry bytes, with exports
ExportChunks   == 2
ExportTime     == 1
ExportSessions == 1
ExportGestures == 3
ExportPending  == 2
ExportDuration == 1
BlockLength    == 1000   \* bytes in the long chunk payload

\* PromptSpec: one short session with prompt edits on a 100 ms wall clock
PromptChunks   == 1
PromptTime     == 1
PromptSessions == 1
PromptGestures == 3
PromptPending  == 1
PromptDuration == 1
MaxWall        == 4      \* Date.now() runs to 400 ms after construction
MaxPromptId    == 4      \* nextPromptId never exceeds this
MaxWeight      == 1      \* a prompt's weight is 0..MaxWeight

\* ------------------------------------------------------ program constants
bufferTime == 2       \* private readonly bufferTime = 1.0 (seconds)
throttleDelay == 2    \* throttle(..., 200), in units of 100 ms

Min(a, b) == IF a < b THEN a ELSE b
Max(a, b) == IF a > b THEN a ELSE b

VARIABLES
    \* fields of PromptDjApp
    playbackState,          \* 'stopped' | 'playing' | 'loading' | 'paused'
    totalDuration,
    currentPlaybackTime,
    activeSources,          \* sequence of live AudioBufferSourceNodes
    decodedAudioBuffers,    \* sequence of decoded AudioBuffers (the Timeline)
    isSeeking,              \* a progress-handle drag is in progress
    streamStartTime,
    session,                \* 0 = undefined, else the id of the held session
    receivedAudioChunks,    \* sequence of raw chunks (the ChunkStore)
    nextStartTime,
    gainTarget,             \* value outputNode.gain is at or ramping to
    gain,                   \* outputNode.gain.value at the current clock value
    \* environment
    now,                    \* audioContext.currentTime
    sessions,               \* status of every session ever asked for
    arrived,                \* number of audio chunks delivered so far
    decoding,               \* chunks whose decodeAudioData promise is pending
    rafLatest,              \* the frame named by animationFrameId is pending
    rafOther,               \* other pending requestAnimationFrame callbacks
    gestures,               \* number of user gestures so far
    download,               \* the file last handed to the browser for download
    workers,                \* MP3 encoder workers that have not answered yet
    budget,                 \* the bounds of this run (never changes)
    \* prompts and their delivery
    prompts,                \* sequence of [promptId, weight]
    nextPromptId,
    lastCall,               \* the throttle's lastCall of setSessionPrompts
    sent,                   \* the last setWeightedPrompts call: session and list
    wall,                   \* Date.now(), in units of 100 ms since construction
    \* history (read by the properties only)
    lastOp,                 \* the handler that ran last
    created,                \* units created since the live set was last cleared
    schedCount,             \* per chunk: units ever created for it (0, 1, 2 = more)
    seekOrReset,            \* a seek or a reset has happened
    failed,                 \* ids of the chunks whose decode was rejected
    pauseMark               \* cursor bookkeeping around one pause/resume

app   == <<playbackState, totalDuration, currentPlaybackTime, activeSources,
           decodedAudioBuffers, isSeeking, streamStartTime, session,
           receivedAudioChunks, nextStartTime, gainTarget, gain>>
env   == <<now, sessions, arrived, decoding, rafLatest, rafOther>>
ghost == <<lastOp, created, schedCount, seekOrReset, failed, pauseMark>>
exports == <<download, workers>>
control == <<prompts, nextPromptId, lastCall, sent, wall>>
vars  == <<app, env, gestures, budget, exports, control, ghost>>
ghostKept == <<created, schedCount, seekOrReset, failed, pauseMark>>

NoMark == [phase |-> "none", cursor |-> 0, resumedAt |-> 0, computed |-> 0, computedAt |-> 0]

\* ------------------------------------------------------------ pure helpers

RECURSIVE SumDurations(_)
\* sum of buffer.duration over a sequence of buffers
SumDurations(bufs) ==
    IF bufs = <<>> THEN 0 ELSE Head(bufs).duration + SumDurations(Tail(bufs))

\* a cursor that is not clamped
ClampedCursor_Unclamped(t, sst, total) == t - sst

\* Math.max(0, Math.min(elapsed, this.totalDuration)) of updateProgress
ClampedCursor(t, sst, total) == Max(0, Min(t - sst, total))

\* updateProgress: does this call write currentPlaybackTime?
ProgressComputes(seeking, st) == ~seeking /\ st \in {"playing", "loading"}

\* updateProgress: does this call end in requestAnimationFrame?
ProgressRequests(seeking, st) == seeking \/ st \in {"playing", "loading"}

\* the AudioBufferSourceNode made for a buffer: source.start(startTime, offset)
Source(buffer, startTime, offset) ==
    [chunk |-> buffer.chunk, duration |-> buffer.duration,
     start |-> startTime, offset |-> offset]

\* history entry of a created unit
Made(src, st, how) ==
    [chunk |-> src.chunk, duration |-> src.duration, start |-> src.start,
     offset |-> src.offset, at |-> now, state |-> st, via |-> how]

Bump(cnt, c) == [cnt EXCEPT ![c] = Min(@ + 1, 2)]

\* the AudioBuffer decoded from a chunk (duration fixed by the chunk's bytes)
Buffer(c) == [chunk |-> c.id, duration |-> c.duration]

\* a store that keeps only the newest chunk
push_Replace(chunks, c) == <<c>>

\* handleServerMessage: this.receivedAudioChunks.push(decoded)
push(chunks, c) == Append(chunks, c)

\* a seed with no look-ahead
SeededStart_NoLookahead(nst, t) == IF nst = 0 THEN t ELSE nst

\* handleServerMessage: seed of nextStartTime when it is unset
SeededStart(nst, t) == IF nst = 0 THEN t + bufferTime ELSE nst

\* a scheduler that never clamps
ClampToNow_Never(nst, t) == nst

\* a scheduler that starts every unit at the current clock value
ClampToNow_Always(nst, t) == t

\* handleServerMessage: if (this.nextStartTime < now) this.nextStartTime = now
ClampToNow(nst, t) == IF nst < t THEN t ELSE nst

\* seekToTime: the test that picks the first buffer to schedule
FirstHit(bufferEnd, seekTime) == bufferEnd >= seekTime

\* a seek that always plays the located buffer from its start
SeekOffset_Zero(seekTime, accumulatedDuration) == 0

\* seekToTime: const offset = seekTime - accumulatedDuration
SeekOffset(seekTime, accumulatedDuration) == seekTime - accumulatedDuration

\* a scheduler that never advances nextStartTime past a unit
AfterUnit_Stays(startTime, duration, offset) == startTime

\* a scheduler that moves nextStartTime back by the length of a unit
AfterUnit_Minus(startTime, duration, offset) == startTime - (duration - offset)

\* a stream origin left at the clock value of the seek
Anchor_Now(t, seekTime) == t

\* seekToTime: this.streamStartTime = this.audioContext.currentTime - seekTime
Anchor(t, seekTime) == t - seekTime

\* scheduleBuffer: this.nextStartTime = startTime + (buffer.duration - offset)
AfterUnit(startTime, duration, offset) == startTime + (duration - offset)

RECURSIVE SeekLoop(_, _, _, _, _)
\* the for-loop of seekToTime over decodedAudioBuffers: the sources it creates,
\* in order, and the final nextStartTime
SeekLoop(bufs, accumulatedDuration, hasScheduled, nst, seekTime) ==
    IF bufs = <<>> THEN [units |-> <<>>, nst |-> nst]
    ELSE LET buffer    == Head(bufs)
             bufferEnd == accumulatedDuration + buffer.duration
             first     == ~hasScheduled /\ FirstHit(bufferEnd, seekTime)
             plays     == first \/ hasScheduled
             offset    == IF first THEN SeekOffset(seekTime, accumulatedDuration) ELSE 0
             nst1      == IF plays THEN AfterUnit(nst, buffer.duration, offset) ELSE nst
             rest      == SeekLoop(Tail(bufs), bufferEnd, plays, nst1, seekTime)
         IN  [units |-> IF plays THEN <<Source(buffer, nst, offset)>> \o rest.units
                                 ELSE rest.units,
              nst   |-> rest.nst]

RECURSIVE BumpAll(_, _)
BumpAll(cnt, units) ==
    IF units = <<>> THEN cnt ELSE BumpAll(Bump(cnt, Head(units).chunk), Tail(units))

\* a frame requested by updateProgress becomes the one animationFrameId names
LatestAfter(requests, latest) == requests \/ latest
OtherAfter(requests, latest, other) == IF requests /\ latest THEN other + 1 ELSE other

\* the first cursor value computed after a resume is recorded
Observed(mark, value) ==
    IF mark.phase = "resumed"
    THEN [mark EXCEPT !.phase = "observed", !.computed = value, !.computedAt = now]
    ELSE mark

\* the sessions asked for so far
SessionIds == DOMAIN sessions

\* ------------------------------------------------------------------- Init

Budget(chunks, time, nsessions, ngestures, pending, duration, payloads) ==
    [chunks |-> chunks, time |-> time, sessions |-> nsessions, gestures |-> ngestures,
     pending |-> pending, duration |-> duration, payloads |-> payloads]

\* chunk payloads (raw 16-bit stereo PCM bytes): one frame of silence
Silence == {<<0, 0, 0, 0>>}

\* chunk payloads of the export runs: two short ones and a long block
ExportPayloads == {<<1, 2>>, <<3>>, [i \in 1..BlockLength |-> 7]}

\* the state after construction of PromptDjApp
Constructed(b) ==
    /\ budget = b
    /\ playbackState = "stopped"
    /\ totalDuration = 0
    /\ currentPlaybackTime = 0
    /\ activeSources = <<>>
    /\ decodedAudioBuffers = <<>>
    /\ isSeeking = FALSE
    /\ streamStartTime = 0
    /\ session = 0
    /\ receivedAudioChunks = <<>>
    /\ nextStartTime = 0
    /\ gainTarget = 1
    /\ gain = 1
    /\ now = 0
    /\ sessions = <<>>
    /\ arrived = 0
    /\ decoding = {}
    /\ rafLatest = FALSE
    /\ rafOther = 0
    /\ gestures = 0
    /\ download = [kind |-> "none", bytes |-> <<>>]
    /\ workers = 0
    /\ prompts = <<[promptId |-> 0, weight |-> 1], [promptId |-> 1, weight |-> 1]>>
    /\ nextPromptId = 2
    /\ lastCall = 0
    /\ sent = [to |-> 0, list |-> <<>>]
    /\ wall = 0
    /\ lastOp = "init"
    /\ created = <<>>
    /\ schedCount = <<>>
    /\ seekOrReset = FALSE
    /\ failed = {}
    /\ pauseMark = NoMark

Init == Constructed(Budget(MaxChunks, MaxTime, MaxSessions, MaxGestures, MaxPending,
                               MaxDuration, Silence))

StreamInit ==
    Constructed(Budget(StreamChunks, StreamTime, StreamSessions, StreamGestures,
                       StreamPending, MaxDuration, Silence))

FailInit ==
    Constructed(Budget(FailChunks, FailTime, FailSessions, FailGestures, FailPending,
                       FailDuration, Silence))

ExportInit ==
    Constructed(Budget(ExportChunks, ExportTime, ExportSessions, ExportGestures,
                       ExportPending, ExportDuration, ExportPayloads))

PromptInit ==
    Constructed(Budget(PromptChunks, PromptTime, PromptSessions, PromptGestures,
                       PromptPending, PromptDuration, Silence))

\* ------------------------------------------------------------ environment

\* the durations a chunk can have, in ticks
Durations == 1..budget.duration

\* one more user gesture (a click or a pointer event on the page)
Click == gestures < budget.gestures /\ gestures' = gestures + 1 /\ UNCHANGED budget

\* a gesture on the transport or the progress bar
Gesture == Click /\ UNCHANGED <<exports, control>>

\* Date.now() advances by 100 ms
WallTick ==
    /\ wall < MaxWall
    /\ wall' = wall + 1
    /\ UNCHANGED <<app, env, gestures, budget, exports, prompts, nextPromptId,
                   lastCall, sent, ghost>>

\* --------------------------------------------------------------- prompts

\* this.prompts.filter(p => p.weight > 0)
promptsToSend(ps) == SelectSeq(ps, LAMBDA p : p.weight > 0)

\* the throttled setSessionPrompts, called with the session held (0 = none)
\* and the prompts at the time of the call: a call less than throttleDelay
\* after the last one that passed is dropped; one that passes sets lastCall
\* and, when a session is held, sends the prompts of positive weight
setSessionPrompts(s, ps) ==
    IF wall - lastCall >= throttleDelay
    THEN /\ lastCall' = wall
         /\ sent' = IF s = 0 THEN sent ELSE [to |-> s, list |-> promptsToSend(ps)]
    ELSE UNCHANGED <<lastCall, sent>>

\* what a prompt handler leaves alone
PromptGesture(op) ==
    /\ Click
    /\ lastOp' = op
    /\ UNCHANGED <<app, env, exports, wall, ghostKept>>

\* the add button: a new prompt of weight 1
addPrompt ==
    /\ nextPromptId < MaxPromptId
    /\ prompts' = Append(prompts, [promptId |-> nextPromptId, weight |-> 1])
    /\ nextPromptId' = nextPromptId + 1
    /\ setSessionPrompts(session, prompts')
    /\ PromptGesture("addPrompt")

\* a prompt editor reports its prompt changed
handlePromptChanged(changedPrompt) ==
    /\ \E k \in 1..Len(prompts) : prompts[k].promptId = changedPrompt.promptId
    /\ prompts' = [k \in 1..Len(prompts) |->
                      IF prompts[k].promptId = changedPrompt.promptId
                      THEN changedPrompt ELSE prompts[k]]
    /\ setSessionPrompts(session, prompts')
    /\ UNCHANGED nextPromptId
    /\ PromptGesture("handlePromptChanged")

\* a prompt editor's remove button
handlePromptRemoved(id) ==
    /\ \E k \in 1..Len(prompts) : prompts[k].promptId = id
    /\ prompts' = SelectSeq(prompts, LAMBDA p : p.promptId # id)
    /\ setSessionPrompts(session, prompts')
    /\ UNCHANGED nextPromptId
    /\ PromptGesture("handlePromptRemoved")

\* the orders a drag can leave the prompt editors in
Orders == {o \in [1..Len(prompts) -> 1..Len(prompts)] :
              \A a, b \in 1..Len(prompts) : a # b => o[a] # o[b]}

\* a drag ends: the prompts take the order of their editors
handleDrop(o) ==
    /\ Len(prompts) > 1
    /\ prompts' = [k \in 1..Len(prompts) |-> prompts[o[k]]]
    /\ setSessionPrompts(session, prompts')
    /\ UNCHANGED nextPromptId
    /\ PromptGesture("handleDrop")

\* the weights of the prompts of a configuration on the clipboard
Configs == {<<1>>, <<0, 1>>}

\* the import button: the prompts are replaced by the configuration's
handleImportConfig(newConfig) ==
    /\ nextPromptId + Len(newConfig) <= MaxPromptId
    /\ prompts' = [k \in 1..Len(newConfig) |->
                      [promptId |-> nextPromptId + k - 1, weight |-> newConfig[k]]]
    /\ nextPromptId' = nextPromptId + Len(newConfig)
    /\ setSessionPrompts(session, prompts')
    /\ PromptGesture("handleImportConfig")

\* the AudioContext clock advances
Tick ==
    /\ UNCHANGED <<gestures, budget, exports, control>>
    /\ now < budget.time
    /\ now' = now + 1
    /\ lastOp' = "tick"
    /\ gain' = gainTarget
    /\ UNCHANGED <<playbackState, totalDuration, currentPlaybackTime, activeSources,
                   decodedAudioBuffers, isSeeking, streamStartTime, session,
                   receivedAudioChunks, nextStartTime, gainTarget,
                   sessions, arrived, decoding, rafLatest, rafOther, ghostKept>>

\* ---------------------------------------------------- handleServerMessage

\* a playing session delivers an audio chunk of duration d and payload p: the
\* chunk is pushed to receivedAudioChunks and decodeAudioData is started on it
handleServerMessage(d, p) ==
    /\ UNCHANGED <<gestures, budget, exports, control>>
    /\ arrived < budget.chunks
    /\ Cardinality(decoding) < budget.pending
    /\ \E s \in SessionIds : sessions[s] = "playing"
    /\ LET c == [id |-> arrived + 1, duration |-> d, data |-> p]
       IN  /\ receivedAudioChunks' = push(receivedAudioChunks, c)
           /\ decoding' = decoding \cup {c}
    /\ arrived' = arrived + 1
    /\ schedCount' = Append(schedCount, 0)
    /\ lastOp' = "handleServerMessage"
    /\ UNCHANGED <<playbackState, totalDuration, currentPlaybackTime, activeSources,
                   decodedAudioBuffers, isSeeking, streamStartTime, session,
                   nextStartTime, gainTarget, gain, now, sessions, rafLatest, rafOther,
                   created, seekOrReset, failed, pauseMark>>

\* the decodes that may complete next: decodeAudioData is asynchronous and is
\* started for every chunk without waiting for the earlier ones
Completable(pending) == pending

\* a callback that never returns early
EarlyReturn_Never(st) == FALSE

\* the .then callback: if (playbackState === 'paused' || 'stopped') return
EarlyReturn(st) == st = "paused" \/ st = "stopped"

\* the .then callback of decodeAudioData for chunk c
decodeResolved(c) ==
    /\ UNCHANGED <<gestures, budget, exports, control>>
    /\ c \in Completable(decoding)
    /\ decoding' = decoding \ {c}
    /\ decodedAudioBuffers' = Append(decodedAudioBuffers, Buffer(c))
    /\ lastOp' = "decodeResolved"
    /\ UNCHANGED <<isSeeking, session, receivedAudioChunks, gainTarget, gain,
                   now, sessions, arrived, seekOrReset, failed>>
    /\ IF EarlyReturn(playbackState)
       THEN /\ pauseMark' = IF pauseMark.phase = "paused" THEN NoMark ELSE pauseMark
            /\ UNCHANGED <<playbackState, totalDuration, currentPlaybackTime,
                           activeSources, streamStartTime, nextStartTime,
                           rafLatest, rafOther, created, schedCount>>
       ELSE LET buffer   == Buffer(c)
                total1   == totalDuration + buffer.duration
                unset    == nextStartTime = 0
                nst1     == SeededStart(nextStartTime, now)
                sst1     == IF unset THEN nst1 ELSE streamStartTime
                computes == unset /\ ProgressComputes(isSeeking, playbackState)
                requests == unset /\ ProgressRequests(isSeeking, playbackState)
                cursor1  == ClampedCursor(now, sst1, total1)
                start    == ClampToNow(nst1, now)
                source   == Source(buffer, start, 0)
            IN  /\ totalDuration' = total1
                /\ activeSources' = Append(activeSources, source)
                /\ streamStartTime' = sst1
                /\ currentPlaybackTime' = IF computes THEN cursor1 ELSE currentPlaybackTime
                /\ rafLatest' = LatestAfter(requests, rafLatest)
                /\ rafOther' = OtherAfter(requests, rafLatest, rafOther)
                /\ playbackState' = IF playbackState = "loading" THEN "playing"
                                                                ELSE playbackState
                /\ nextStartTime' = AfterUnit(start, buffer.duration, 0)
                /\ created' = Append(created, Made(source, playbackState, "stream"))
                /\ schedCount' = Bump(schedCount, buffer.chunk)
                /\ pauseMark' = IF computes THEN Observed(pauseMark, cursor1) ELSE pauseMark

\* decodeAudioData rejects: the .then callback never runs
decodeRejected(c) ==
    /\ UNCHANGED <<gestures, budget, exports, control>>
    /\ c \in Completable(decoding)
    /\ decoding' = decoding \ {c}
    /\ failed' = failed \cup {c.id}
    /\ lastOp' = "decodeRejected"
    /\ UNCHANGED <<app, now, sessions, arrived, rafLatest, rafOther,
                   created, schedCount, seekOrReset, pauseMark>>

\* an onended that empties the live set
Without_All(sources, i) == <<>>

\* onended: this.activeSources.filter(s => s !== source), source being the i-th
Without(sources, i) == SubSeq(sources, 1, i - 1) \o SubSeq(sources, i + 1, Len(sources))

\* source.onended of a live unit whose playback has run to its end
onended(i) ==
    /\ UNCHANGED <<gestures, budget, exports, control>>
    /\ i \in 1..Len(activeSources)
    /\ now >= AfterUnit(activeSources[i].start, activeSources[i].duration,
                        activeSources[i].offset)
    /\ activeSources' = Without(activeSources, i)
    /\ lastOp' = "onended"
    /\ UNCHANGED <<playbackState, totalDuration, currentPlaybackTime,
                   decodedAudioBuffers, isSeeking, streamStartTime, session,
                   receivedAudioChunks, nextStartTime, gainTarget, gain, env, ghostKept>>

\* --------------------------------------------------------------- transport

\* loadAudio, with s the value of this.session and ss the session table
loadAudio(s, ss) ==
    IF s = 0
    THEN /\ sessions' = ss
         /\ UNCHANGED <<playbackState, currentPlaybackTime, gainTarget, gain,
                        rafLatest, rafOther, pauseMark>>
    ELSE LET computes == ProgressComputes(isSeeking, playbackState)
             requests == ProgressRequests(isSeeking, playbackState)
             cursor1  == ClampedCursor(now, streamStartTime, totalDuration)
         IN  /\ currentPlaybackTime' = IF computes THEN cursor1 ELSE currentPlaybackTime
             /\ rafLatest' = LatestAfter(requests, rafLatest)
             /\ rafOther' = OtherAfter(requests, rafLatest, rafOther)
             /\ sessions' = [ss EXCEPT ![s] = "playing"]
             /\ playbackState' = IF playbackState = "paused" THEN "playing" ELSE "loading"
             /\ gainTarget' = 1
             /\ gain' = 0
             /\ pauseMark' =
                  IF playbackState = "paused" /\ pauseMark.phase = "paused"
                  THEN [pauseMark EXCEPT !.phase = "resumed", !.resumedAt = now]
                  ELSE IF computes THEN Observed(pauseMark, cursor1) ELSE pauseMark

\* a clearAllSources that stops the sources but keeps the list
clearAllSources_Keep(sources) == sources

\* the live set after clearAllSources: every source stopped, the list emptied
clearAllSources(sources) == <<>>

\* pauseAudio
pauseAudio ==
    IF session = 0
    THEN UNCHANGED <<app, sessions, rafLatest, rafOther, created, pauseMark>>
    ELSE /\ rafLatest' = FALSE
         /\ sessions' = [sessions EXCEPT ![session] = "paused"]
         /\ playbackState' = "paused"
         /\ gainTarget' = 0
         /\ gain' = gain
         /\ activeSources' = clearAllSources(activeSources)
         /\ created' = <<>>
         /\ pauseMark' = IF isSeeking THEN NoMark
                         ELSE [NoMark EXCEPT
                                 !.phase = "paused",
                                 !.cursor = ClampedCursor(now, streamStartTime,
                                                          totalDuration)]
         /\ UNCHANGED <<totalDuration, currentPlaybackTime, decodedAudioBuffers,
                        isSeeking, streamStartTime, session, receivedAudioChunks,
                        nextStartTime, rafOther>>

\* stopAudio, with ss the session table it starts from
stopAudio(ss) ==
    /\ sessions' = IF session # 0 THEN [ss EXCEPT ![session] = "stopped"] ELSE ss
    /\ session' = 0
    /\ rafLatest' = FALSE
    /\ activeSources' = clearAllSources(activeSources)
    /\ playbackState' = "stopped"
    /\ nextStartTime' = 0
    /\ totalDuration' = 0
    /\ currentPlaybackTime' = 0
    /\ streamStartTime' = 0
    /\ receivedAudioChunks' = <<>>
    /\ decodedAudioBuffers' = <<>>
    /\ created' = <<>>
    /\ seekOrReset' = TRUE
    /\ failed' = {}
    /\ pauseMark' = NoMark
    /\ UNCHANGED <<isSeeking, gainTarget, gain, now, arrived, decoding, rafOther, schedCount>>

\* connectToSession up to its first await: the connect call is in flight
connectToSession ==
    /\ Len(sessions) < budget.sessions
    /\ playbackState' = "loading"
    /\ sessions' = Append(sessions, "connecting")
    /\ UNCHANGED <<totalDuration, currentPlaybackTime, activeSources,
                   decodedAudioBuffers, isSeeking, streamStartTime, session,
                   receivedAudioChunks, nextStartTime, gainTarget, gain,
                   rafLatest, rafOther, created, pauseMark>>

\* click on the play button
handlePlayPause ==
    /\ Gesture
    /\ IF playbackState = "playing" \/ playbackState = "loading"
       THEN pauseAudio /\ lastOp' = "pauseAudio"
       ELSE IF session = 0
            THEN connectToSession /\ lastOp' = "connectToSession"
            ELSE /\ loadAudio(session, sessions)
                 /\ lastOp' = "loadAudio"
                 /\ UNCHANGED <<totalDuration, activeSources, decodedAudioBuffers,
                                isSeeking, streamStartTime, session,
                                receivedAudioChunks, nextStartTime, created>>
    /\ UNCHANGED <<now, arrived, decoding, schedCount, seekOrReset, failed>>

\* connectToSession after the await: the session is stored, prompts and
\* settings are sent, loadAudio runs
connectResolved(i) ==
    /\ UNCHANGED <<gestures, budget, exports, prompts, nextPromptId, wall>>
    /\ sessions[i] = "connecting"
    /\ session' = i
    /\ setSessionPrompts(i, prompts)
    /\ loadAudio(i, sessions)
    /\ lastOp' = "connectResolved"
    /\ UNCHANGED <<totalDuration, activeSources, decodedAudioBuffers, isSeeking,
                   streamStartTime, receivedAudioChunks, nextStartTime,
                   now, arrived, decoding, created, schedCount, seekOrReset, failed>>

\* connectToSession's catch: the connect promise rejects
connectRejected(i) ==
    /\ UNCHANGED <<gestures, budget, exports, control>>
    /\ sessions[i] = "connecting"
    /\ sessions' = [sessions EXCEPT ![i] = "failed"]
    /\ playbackState' = "stopped"
    /\ lastOp' = "connectRejected"
    /\ UNCHANGED <<totalDuration, currentPlaybackTime, activeSources,
                   decodedAudioBuffers, isSeeking, streamStartTime, session,
                   receivedAudioChunks, nextStartTime, gainTarget, gain,
                   now, arrived, decoding, rafLatest, rafOther, ghostKept>>

\* click on the reset button: handleReset = () => this.stopAudio()
handleReset ==
    /\ Gesture
    /\ stopAudio(sessions)
    /\ lastOp' = "stopAudio"

\* the onerror callback of session i: the session is lost, stopAudio runs
onerror(i) ==
    /\ UNCHANGED <<gestures, budget, exports, control>>
    /\ sessions[i] \in {"playing", "paused"}
    /\ stopAudio([sessions EXCEPT ![i] = "closed"])
    /\ lastOp' = "onerror"

\* a requestAnimationFrame callback fires and runs updateProgress;
\* latest tells whether it is the frame animationFrameId names
animationFrame(latest) ==
    /\ UNCHANGED <<gestures, budget, exports, control>>
    /\ IF latest THEN rafLatest ELSE rafOther > 0
    /\ LET computes == ProgressComputes(isSeeking, playbackState)
           requests == ProgressRequests(isSeeking, playbackState)
           cursor1  == ClampedCursor(now, streamStartTime, totalDuration)
           latest0  == IF latest THEN FALSE ELSE rafLatest
           other0   == IF latest THEN rafOther ELSE rafOther - 1
       IN  /\ currentPlaybackTime' = IF computes THEN cursor1 ELSE currentPlaybackTime
           /\ rafLatest' = LatestAfter(requests, latest0)
           /\ rafOther' = OtherAfter(requests, latest0, other0)
           /\ pauseMark' = IF computes THEN Observed(pauseMark, cursor1) ELSE pauseMark
    /\ lastOp' = "updateProgress"
    /\ UNCHANGED <<playbackState, totalDuration, activeSources, decodedAudioBuffers,
                   isSeeking, streamStartTime, session, receivedAudioChunks,
                   nextStartTime, gainTarget, gain, now, sessions, arrived, decoding,
                   created, schedCount, seekOrReset, failed>>

\* ------------------------------------------------------------------- seek

\* seekToTime(seekTime)
seekToTime(seekTime) ==
    LET plan == SeekLoop(decodedAudioBuffers, 0, FALSE, now, seekTime)
    IN  /\ activeSources' = clearAllSources(activeSources) \o plan.units
        /\ currentPlaybackTime' = seekTime
        /\ streamStartTime' = Anchor(now, seekTime)
        /\ nextStartTime' = plan.nst
        /\ playbackState' = IF playbackState = "paused" THEN "playing" ELSE playbackState
        /\ sessions' = IF playbackState = "paused" /\ session # 0
                       THEN [sessions EXCEPT ![session] = "playing"] ELSE sessions
        /\ created' = [k \in 1..Len(plan.units) |->
                         Made(plan.units[k], playbackState, "seek")]
        /\ schedCount' = BumpAll(schedCount, plan.units)
        /\ seekOrReset' = TRUE
        /\ pauseMark' = NoMark
        /\ UNCHANGED <<totalDuration, decodedAudioBuffers, session,
                       receivedAudioChunks, gainTarget, gain, now, arrived, decoding,
                       rafLatest, rafOther, failed>>

\* the positions a pointer on the progress bar can select:
\* this.totalDuration * seekRatio with seekRatio in [0, 1]
SeekTargets == 0..totalDuration

\* click on the progress bar
handleSeek ==
    /\ Gesture
    /\ ~(playbackState = "stopped" \/ totalDuration = 0)
    /\ ~isSeeking
    /\ \E t \in SeekTargets : seekToTime(t)
    /\ lastOp' = "handleSeek"
    /\ UNCHANGED isSeeking

\* pointerdown on the progress handle: the drag starts
handleSeekPointerDown ==
    /\ Gesture
    /\ ~(playbackState = "stopped" \/ totalDuration = 0)
    /\ ~isSeeking
    /\ isSeeking' = TRUE
    /\ lastOp' = "handleSeekPointerDown"
    /\ UNCHANGED <<playbackState, totalDuration, currentPlaybackTime, activeSources,
                   decodedAudioBuffers, streamStartTime, session,
                   receivedAudioChunks, nextStartTime, gainTarget, gain, env, ghostKept>>

\* pointermove during the drag
onPointerMove ==
    /\ Gesture
    /\ isSeeking
    /\ \E t \in SeekTargets : currentPlaybackTime' = t
    /\ lastOp' = "onPointerMove"
    /\ UNCHANGED <<playbackState, totalDuration, activeSources, decodedAudioBuffers,
                   isSeeking, streamStartTime, session, receivedAudioChunks,
                   nextStartTime, gainTarget, gain, env, ghostKept>>

\* pointerup: the drag ends with a seek
onPointerUp ==
    /\ Gesture
    /\ isSeeking
    /\ isSeeking' = FALSE
    /\ \E t \in SeekTargets : seekToTime(t)
    /\ lastOp' = "onPointerUp"

\* ----------------------------------------------------------------- export

\* DataView.setUint32(offset, n, true): the four bytes of n, lowest first
Uint32LE(n) ==
    <<n % 256, (n \div 256) % 256, (n \div 65536) % 256, (n \div 16777216) % 256>>

\* DataView.setUint16(offset, n, true)
Uint16LE(n) == <<n % 256, (n \div 256) % 256>>

\* the character codes of 'RIFF', 'WAVE', 'fmt ' and 'data'
RIFF == <<82, 73, 70, 70>>
WAVE == <<87, 65, 86, 69>>
fmt  == <<102, 109, 116, 32>>
data == <<100, 97, 116, 97>>

\* new AudioContext({ sampleRate: 48000 })
sampleRate == 48000

\* a header whose data length field is left at zero
writeWavHeader_NoLength(dataLength, rate, numChannels, bitsPerSample) ==
    RIFF \o Uint32LE(36 + dataLength) \o WAVE \o fmt \o Uint32LE(16) \o Uint16LE(1)
    \o Uint16LE(numChannels) \o Uint32LE(rate)
    \o Uint32LE(rate * numChannels * (bitsPerSample \div 8))
    \o Uint16LE(numChannels * (bitsPerSample \div 8)) \o Uint16LE(bitsPerSample)
    \o data \o Uint32LE(0)

\* writeWavHeader: the 44 bytes of the RIFF/WAVE header
writeWavHeader(dataLength, rate, numChannels, bitsPerSample) ==
    RIFF \o Uint32LE(36 + dataLength) \o WAVE \o fmt \o Uint32LE(16) \o Uint16LE(1)
    \o Uint16LE(numChannels) \o Uint32LE(rate)
    \o Uint32LE(rate * numChannels * (bitsPerSample \div 8))
    \o Uint16LE(numChannels * (bitsPerSample \div 8)) \o Uint16LE(bitsPerSample)
    \o data \o Uint32LE(dataLength)

RECURSIVE TotalLength(_)
\* receivedAudioChunks.reduce((acc, chunk) => acc + chunk.length, 0)
TotalLength(chunks) ==
    IF chunks = <<>> THEN 0 ELSE Len(Head(chunks).data) + TotalLength(Tail(chunks))

RECURSIVE Concatenated(_)
\* concatenatedData: every chunk copied at the offset where its predecessor ends
Concatenated(chunks) ==
    IF chunks = <<>> THEN <<>> ELSE Head(chunks).data \o Concatenated(Tail(chunks))

\* click on the WAV download button
handleDownloadWav ==
    /\ Click
    /\ IF Len(receivedAudioChunks) = 0
       THEN UNCHANGED download
       ELSE LET totalLength == TotalLength(receivedAudioChunks)
                header      == writeWavHeader(totalLength, sampleRate, 2, 16)
            IN  download' = [kind  |-> "wav",
                             bytes |-> header \o Concatenated(receivedAudioChunks)]
    /\ lastOp' = "handleDownloadWav"
    /\ UNCHANGED <<app, env, workers, control, ghostKept>>

\* a postMessage that hands the chunks' own buffers over to the worker
AfterTransfer_Detached(chunks) == [i \in DOMAIN chunks |-> [chunks[i] EXCEPT !.data = <<>>]]

\* the store after worker.postMessage(..., [left.buffer, right.buffer]): only
\* the copies made for the worker are transferred
AfterTransfer(chunks) == chunks

\* click on the MP3 download button: the samples are de-interleaved and sent
\* to an encoder worker; new Int16Array(buffer) throws on an odd byte length
handleDownloadMp3 ==
    /\ Click
    /\ IF Len(receivedAudioChunks) = 0 \/ TotalLength(receivedAudioChunks) % 2 # 0
       THEN UNCHANGED <<receivedAudioChunks, workers>>
       ELSE /\ workers' = workers + 1
            /\ receivedAudioChunks' = AfterTransfer(receivedAudioChunks)
    /\ lastOp' = "handleDownloadMp3"
    /\ UNCHANGED <<playbackState, totalDuration, currentPlaybackTime, activeSources,
                   decodedAudioBuffers, isSeeking, streamStartTime, session,
                   nextStartTime, gainTarget, gain, env, download, control, ghostKept>>

\* worker.onmessage with the encoded data: the MP3 file is handed to the browser
\* (its bytes are the encoder's and are not represented)
mp3Encoded ==
    /\ workers > 0
    /\ workers' = workers - 1
    /\ download' = [kind |-> "mp3", bytes |-> <<>>]
    /\ lastOp' = "mp3Encoded"
    /\ UNCHANGED <<app, env, gestures, budget, control, ghostKept>>

\* worker.onmessage with an error, or worker.onerror: an alert, no file
mp3Failed ==
    /\ workers > 0
    /\ workers' = workers - 1
    /\ lastOp' = "mp3Failed"
    /\ UNCHANGED <<app, env, gestures, budget, download, control, ghostKept>>

\* ------------------------------------------------------------------- Next

\* the quantified steps, named
ServerMessage   == \E d \in Durations, p \in budget.payloads : handleServerMessage(d, p)
DecodeResolved  == \E c \in decoding : decodeResolved(c)
DecodeRejected  == \E c \in decoding : decodeRejected(c)
Ended           == \E i \in 1..Len(activeSources) : onended(i)
ConnectResolved == \E i \in SessionIds : connectResolved(i)
ConnectRejected == \E i \in SessionIds : connectRejected(i)
SessionError    == \E i \in SessionIds : onerror(i)
AnimationFrame  == \E latest \in BOOLEAN : animationFrame(latest)

Next ==
    \/ Tick
    \/ ServerMessage
    \/ DecodeResolved
    \/ DecodeRejected
    \/ Ended
    \/ handlePlayPause
    \/ ConnectResolved
    \/ ConnectRejected
    \/ handleReset
    \/ SessionError
    \/ AnimationFrame
    \/ handleSeek
    \/ handleSeekPointerDown
    \/ onPointerMove
    \/ onPointerUp

Spec == Init /\ [][Next]_vars

StreamSpec == StreamInit /\ [][Next]_vars

FailSpec == FailInit /\ [][Next]_vars

\* the program with its export buttons
ExportNext ==
    \/ Next
    \/ handleDownloadWav
    \/ handleDownloadMp3
    \/ mp3Encoded
    \/ mp3Failed

ExportSpec == ExportInit /\ [][ExportNext]_vars

PromptChanged  == \E id \in 0..MaxPromptId, w \in 0..MaxWeight :
                      handlePromptChanged([promptId |-> id, weight |-> w])
PromptRemoved  == \E id \in 0..MaxPromptId : handlePromptRemoved(id)
Drop           == \E o \in Orders : handleDrop(o)
ImportConfig   == \E newConfig \in Configs : handleImportConfig(newConfig)
Decoded        == DecodeResolved \/ DecodeRejected
Connected      == ConnectResolved \/ ConnectRejected

\* the program with its prompt editors
PromptNext ==
    \/ Next
    \/ WallTick
    \/ addPrompt
    \/ PromptChanged
    \/ PromptRemoved
    \/ Drop
    \/ ImportConfig

\* every pending callback, promise and timer is eventually served; the user
\* and the session's errors are under no obligation
PromptSpec ==
    /\ PromptInit
    /\ [][PromptNext]_vars
    /\ WF_vars(Tick)
    /\ WF_vars(WallTick)
    /\ WF_vars(Decoded)
    /\ WF_vars(Connected)
    /\ WF_vars(AnimationFrame)
    /\ WF_vars(Ended)

TypeOK ==
    /\ playbackState \in {"stopped", "playing", "loading", "paused"}
    /\ totalDuration \in Nat
    /\ currentPlaybackTime \in Nat
    /\ session \in {0} \cup SessionIds
    /\ now \in 0..budget.time
    /\ rafOther \in Nat

\* ------------------------------------------------------ derived notions

Timeline == decodedAudioBuffers

\* cumulative start of Timeline buffer k
StartOf(k) == SumDurations(SubSeq(Timeline, 1, k - 1))

\* end of playback of a unit on the device clock
EndOf(u) == u.start + (u.duration - u.offset)

Stopped  == lastOp \in {"stopAudio", "onerror"}
Sought   == lastOp \in {"handleSeek", "onPointerUp"}
\* loadAudio took the transport from 'paused' to 'playing'
Resumed  == lastOp \in {"loadAudio", "connectResolved"} /\ playbackState = "playing"

\* ------------------------------------------------------------- properties

\* C1: the buffers of the Timeline are in the order in which their chunks
\* arrived, whatever the order in which the decodes completed.
C1_TimelineInArrivalOrder ==
    \A i, j \in 1..Len(Timeline) :
        i < j => Timeline[i].chunk < Timeline[j].chunk

\* C2: absent seek and reset, no chunk is scheduled twice, and once the
\* transport is playing every decoded chunk has been scheduled exactly once
\* (also the chunks whose decode completed during a pause).
C2_ScheduledExactlyOnce ==
    ~seekOrReset =>
        /\ \A c \in DOMAIN schedCount : schedCount[c] <= 1
        /\ playbackState = "playing" =>
              \A k \in 1..Len(Timeline) : schedCount[Timeline[k].chunk] = 1

\* C3: of two buffers streamed one after the other with no pause, reset or
\* seek in between, the second, if scheduled before the clock has passed the
\* end of the first, starts exactly where the first ends.
C3_GaplessAdjacency ==
    \A k \in 2..Len(created) :
        (/\ created[k - 1].via = "stream"
         /\ created[k].via = "stream"
         /\ created[k].at <= EndOf(created[k - 1]))
        => created[k].start = created[k - 1].start + created[k - 1].duration

C3_Witness ==
    \E k \in 2..Len(created) :
        /\ created[k - 1].via = "stream"
        /\ created[k].via = "stream"
        /\ created[k].at > created[k - 1].at
        /\ created[k].at <= EndOf(created[k - 1])

\* C4: no unit is created while playbackState is 'stopped'.
C4_NoUnitWhileStopped ==
    \A k \in 1..Len(created) : created[k].state # "stopped"

\* C5: right after stopAudio everything is torn down.
C5_ResetClearsAll ==
    Stopped =>
        /\ playbackState = "stopped"
        /\ receivedAudioChunks = <<>>
        /\ Timeline = <<>>
        /\ totalDuration = 0
        /\ currentPlaybackTime = 0
        /\ nextStartTime = 0
        /\ streamStartTime = 0
        /\ activeSources = <<>>
        /\ session = 0

\* stopAudio has run on a session that had received and scheduled audio
C5_Witness ==
    /\ Stopped
    /\ \E c \in DOMAIN schedCount : schedCount[c] >= 1

\* C6: totalDuration is the sum of the durations of the Timeline's buffers.
C6_TotalIsSumOfTimeline ==
    totalDuration = SumDurations(Timeline)

\* C7: pause, stop and seek cancel every unit that was live; while paused the
\* live set stays empty.
C7_CancelOnPauseStopSeek ==
    /\ (lastOp = "pauseAudio" \/ Stopped) => activeSources = <<>>
    /\ Sought => /\ Len(activeSources) = Len(created)
                 /\ \A k \in 1..Len(created) :
                       /\ created[k].via = "seek"
                       /\ created[k].chunk = activeSources[k].chunk
    /\ playbackState = "paused" => activeSources = <<>>

\* C8: the first cursor value computed after a resume continues from the
\* cursor at the moment of pause: it is not before it and not further on than
\* the time elapsed since the resume, within one tick.
C8_CursorContinuousOverPause ==
    pauseMark.phase = "observed" =>
        /\ pauseMark.computed >= pauseMark.cursor - 1
        /\ pauseMark.computed <=
              pauseMark.cursor + (pauseMark.computedAt - pauseMark.resumedAt) + 1

\* C9: on resume every Timeline buffer that ends after the cursor is live
\* again, the one holding the cursor from its intra-buffer offset.
C9_ResumeReschedules ==
    Resumed =>
        \A k \in 1..Len(Timeline) :
            StartOf(k) + Timeline[k].duration > currentPlaybackTime =>
                \E i \in 1..Len(activeSources) :
                    /\ activeSources[i].chunk = Timeline[k].chunk
                    /\ activeSources[i].offset =
                          Max(0, currentPlaybackTime - StartOf(k))

\* C10: a seek to a time strictly inside buffer k creates one unit for each of
\* the buffers k..n, in order: buffer k at deviceNow from offset t - s_k, each
\* later one at its predecessor's end from offset 0.
C10_SeekInsideBuffer ==
    Sought =>
        \A k \in 1..Len(Timeline) :
            (/\ StartOf(k) < currentPlaybackTime
             /\ currentPlaybackTime < StartOf(k) + Timeline[k].duration)
            => /\ Len(activeSources) = Len(Timeline) - k + 1
               /\ \A j \in 1..Len(activeSources) :
                     /\ activeSources[j].chunk = Timeline[k + j - 1].chunk
                     /\ activeSources[j].duration = Timeline[k + j - 1].duration
                     /\ activeSources[j].offset =
                           (IF j = 1 THEN currentPlaybackTime - StartOf(k) ELSE 0)
                     /\ activeSources[j].start =
                           (IF j = 1 THEN now ELSE EndOf(activeSources[j - 1]))
               /\ activeSources[1].offset >= 0
               /\ activeSources[1].offset <= Timeline[k].duration

\* the scenario: buffers of 1.0 s, 1.0 s and 0.5 s, seek to 1.5 s
C10_Witness ==
    /\ Sought
    /\ Len(Timeline) = 3
    /\ Timeline[1].duration = 2 /\ Timeline[2].duration = 2 /\ Timeline[3].duration = 1
    /\ currentPlaybackTime = 3
    /\ Len(activeSources) = 2
    /\ activeSources[1].chunk = Timeline[2].chunk /\ activeSources[1].offset = 1
    /\ activeSources[2].chunk = Timeline[3].chunk
    /\ activeSources[2].start = activeSources[1].start + 1

\* C11: a seek to the end of buffer k, with buffer k+1 following, creates no
\* zero-length unit: the first unit is buffer k+1 from offset 0.
C11_SeekAtBoundary ==
    Sought =>
        \A k \in 1..(Len(Timeline) - 1) :
            currentPlaybackTime = StartOf(k + 1)
            => /\ activeSources # <<>>
               /\ activeSources[1].chunk = Timeline[k + 1].chunk
               /\ activeSources[1].offset = 0
               /\ \A j \in 1..Len(activeSources) :
                     activeSources[j].offset < activeSources[j].duration

\* C12: a seek to the total duration of the Timeline creates no unit.
C12_SeekToEndSchedulesNothing ==
    (/\ Sought
     /\ totalDuration = SumDurations(Timeline)
     /\ currentPlaybackTime = totalDuration)
    => activeSources = <<>>

\* C13: a seek to 0 creates one unit per Timeline buffer, in Timeline order,
\* the first at deviceNow from offset 0 and each later one at its
\* predecessor's end.
C13_SeekToZeroRebuildsAll ==
    (Sought /\ currentPlaybackTime = 0)
    => /\ Len(activeSources) = Len(Timeline)
       /\ \A j \in 1..Len(activeSources) :
             /\ activeSources[j].chunk = Timeline[j].chunk
             /\ activeSources[j].duration = Timeline[j].duration
             /\ activeSources[j].offset = 0
             /\ activeSources[j].start =
                   (IF j = 1 THEN now
                             ELSE activeSources[j - 1].start + Timeline[j - 1].duration)

\* a seek to 0 over a Timeline of two buffers, after the clock has moved
C13_Witness ==
    /\ Sought
    /\ currentPlaybackTime = 0
    /\ Len(Timeline) = 2
    /\ Len(activeSources) = 2
    /\ now > 0

\* the step is a seek request taking effect: a click on the progress bar or
\* the release of a drag of the progress handle
SeekStep == lastOp' \in {"handleSeek", "onPointerUp"}

\* s is a prefix of t
IsPrefix(s, t) == Len(s) <= Len(t) /\ SubSeq(t, 1, Len(s)) = s

\* C14: a seek request that takes effect while the transport is 'stopped' or
\* the total duration is 0 changes nothing: no unit is created, and the
\* cursor, streamStartTime, nextStartTime and the transport state keep their
\* values.
C14_SeekIgnoredWhenInvalid ==
    [][(SeekStep /\ (playbackState = "stopped" \/ totalDuration = 0))
       => /\ activeSources' = activeSources
          /\ schedCount' = schedCount
          /\ UNCHANGED <<currentPlaybackTime, streamStartTime, nextStartTime,
                         playbackState>>]_vars

\* C15: every step other than a reset (stopAudio) leaves the previous chunk
\* sequence as a prefix of the new one; a reset empties the store.
C15_ChunkStoreAppendOnly ==
    [][IF lastOp' \in {"stopAudio", "onerror"}
       THEN receivedAudioChunks' = <<>>
       ELSE IsPrefix(receivedAudioChunks, receivedAudioChunks')]_vars

\* a seek has just run on a store that holds two chunks
C15_Witness ==
    /\ Sought
    /\ Len(receivedAudioChunks) = 2
    /\ gestures = 3
    /\ ~isSeeking

\* the transitions of the transport state
Transitions ==
    {<<"stopped", "loading">>, <<"loading", "playing">>, <<"playing", "paused">>,
     <<"paused", "playing">>, <<"playing", "stopped">>, <<"loading", "stopped">>,
     <<"paused", "stopped">>}

\* C16: every change of playbackState is one of the listed transitions.
C16_OnlyListedTransitions ==
    [][playbackState' # playbackState
       => <<playbackState, playbackState'>> \in Transitions]_vars

\* C17: a step that moves the cursor forward is taken while the state is
\* 'playing', unless it is a seek (a click, a drag or its release).
C17_CursorAdvancesOnlyWhilePlaying ==
    [][(/\ currentPlaybackTime' > currentPlaybackTime
        /\ ~SeekStep
        /\ lastOp' # "onPointerMove")
       => playbackState = "playing"]_vars

\* C18: whenever the live set has just been cleared by pause, stop or reset,
\* nextStartTime is unset.
C18_ClearUnsetsNextStart ==
    ((lastOp = "pauseAudio" /\ playbackState = "paused") \/ Stopped)
    => nextStartTime = 0

\* the remote session has just reported an error, or the connect attempt has
\* just failed
SessionFailed == lastOp \in {"onerror", "connectRejected"}

\* C20: after a session error or a failed connect the transport is 'stopped',
\* the ChunkStore, the Timeline, the total duration, the cursor, the live set
\* and nextStartTime are cleared, and no session is held.
C20_SessionErrorTearsDown ==
    SessionFailed =>
        /\ playbackState = "stopped"
        /\ receivedAudioChunks = <<>>
        /\ Timeline = <<>>
        /\ totalDuration = 0
        /\ currentPlaybackTime = 0
        /\ activeSources = <<>>
        /\ nextStartTime = 0
        /\ session = 0

\* the session streams and the user has done nothing but press play
Undisturbed == gestures = 1 /\ sessions = <<"playing">>

\* C19: a chunk whose decode fails contributes no Timeline buffer and no unit,
\* and the failure leaves the transport state, the Timeline and the live set
\* as they were; every other chunk of an undisturbed stream is appended to the
\* Timeline and scheduled once its decode completes, and streamed units are
\* created with non-decreasing start times.
C19_DecodeFailureIsolated ==
    /\ [](/\ \A id \in failed :
               /\ \A k \in 1..Len(Timeline) : Timeline[k].chunk # id
               /\ \A i \in 1..Len(activeSources) : activeSources[i].chunk # id
               /\ schedCount[id] = 0
          /\ \A k \in 2..Len(created) :
               (created[k - 1].via = "stream" /\ created[k].via = "stream")
               => created[k].start >= created[k - 1].start
          /\ Undisturbed =>
               \A id \in 1..arrived :
                   \/ id \in failed
                   \/ \E c \in decoding : c.id = id
                   \/ /\ \E k \in 1..Len(Timeline) : Timeline[k].chunk = id
                      /\ \E i \in 1..Len(created) : created[i].chunk = id
                      /\ schedCount[id] = 1)
    /\ [][lastOp' = "decodeRejected"
          => UNCHANGED <<playbackState, decodedAudioBuffers, activeSources,
                         totalDuration, nextStartTime>>]_vars

\* five chunks, the second failed: a Timeline of four buffers, all scheduled
C19_Witness ==
    /\ Undisturbed
    /\ arrived = 5
    /\ decoding = {}
    /\ failed = {2}
    /\ Len(Timeline) = 4
    /\ Len(activeSources) = 4
    /\ playbackState = "playing"

\* C21: a pause that stops live units stops them with the output gain at
\* zero, i.e. after the fade-out ramp has completed.
C21_FadeBeforeCut ==
    [][(lastOp' = "pauseAudio" /\ activeSources # <<>> /\ activeSources' = <<>>)
       => gain' = 0]_vars

\* the step streams a unit: a decode completes and its buffer is scheduled
StreamStep == lastOp' = "decodeResolved" /\ Len(created') = Len(created) + 1

\* the unit created last
Newest(units) == units[Len(units)]

\* C22: a buffer streamed while nextStartTime is unset starts at deviceNow plus
\* the look-ahead of 1.0 s and streamStartTime is set to that instant; a buffer
\* streamed while nextStartTime is set leaves streamStartTime as it is.
C22_SeedWithLookahead ==
    [][StreamStep =>
         IF nextStartTime = 0
         THEN /\ Newest(created').start = now + bufferTime
              /\ streamStartTime' = now + bufferTime
         ELSE streamStartTime' = streamStartTime]_vars

\* two buffers streamed at different clock values: the first seeded the
\* stream origin, the second left it alone
C22_Witness ==
    /\ lastOp = "decodeResolved"
    /\ Len(created) = 2
    /\ created[1].via = "stream" /\ created[2].via = "stream"
    /\ created[1].at > 0
    /\ created[2].at > created[1].at
    /\ created[1].start = created[1].at + bufferTime
    /\ streamStartTime = created[1].start

\* C23: every unit is created with a start time not before the clock value at
\* its creation, and a buffer streamed after the clock has passed
\* nextStartTime starts exactly at the clock value.
C23_StartNotInPast ==
    /\ [](\A k \in 1..Len(created) : created[k].start >= created[k].at)
    /\ [][(StreamStep /\ nextStartTime # 0 /\ nextStartTime < now)
          => Newest(created').start = now]_vars

\* a buffer streamed late: the clock had passed the end of its predecessor
C23_Witness ==
    \E k \in 2..Len(created) :
        /\ created[k].via = "stream"
        /\ created[k].at > EndOf(created[k - 1])
        /\ created[k].start = created[k].at

\* C24: the units created since the live set was last cleared have
\* non-decreasing start times, in the order of their creation.
C24_StartsNonDecreasing ==
    \A k \in 2..Len(created) : created[k].start >= created[k - 1].start

\* a seek rebuilt the schedule and a buffer was streamed after it
C24_Witness ==
    \E k \in 2..Len(created) :
        /\ created[k - 1].via = "seek"
        /\ created[k].via = "stream"
        /\ created[k].start > created[k - 1].start

\* C25: right after a seek to t the cursor is t, t is within
\* [0, totalDuration], streamStartTime is deviceNow - t, and a cursor read at
\* that instant gives t.
C25_SeekAnchorsCursor ==
    Sought =>
        /\ currentPlaybackTime \in 0..totalDuration
        /\ streamStartTime = now - currentPlaybackTime
        /\ ClampedCursor(now, streamStartTime, totalDuration) = currentPlaybackTime

\* a seek into the middle of the audio, after the clock has moved
C25_Witness ==
    /\ Sought
    /\ now > 0
    /\ currentPlaybackTime > 0
    /\ currentPlaybackTime < totalDuration

\* the step creates at least one unit
Schedules == StreamStep \/ (SeekStep /\ created' # <<>>)

\* C26: a step that schedules a unit while the state is 'loading' ends in
\* 'playing', and a step from 'loading' to 'playing' schedules a unit.
C26_LoadingEndsWithFirstUnit ==
    [][/\ (playbackState = "loading" /\ Schedules) => playbackState' = "playing"
       /\ (playbackState = "loading" /\ playbackState' = "playing") => Schedules]_vars

\* the step is part of an export: a click on a download button or the answer
\* of an encoder worker
ExportStep ==
    lastOp' \in {"handleDownloadWav", "handleDownloadMp3", "mp3Encoded", "mp3Failed"}

\* C27: an export, successful or failed, leaves the transport state, the
\* ChunkStore, the Timeline, the total duration, the cursor, nextStartTime,
\* streamStartTime and the live set as they were.
C27_ExportTouchesNothing ==
    [][ExportStep
       => UNCHANGED <<playbackState, receivedAudioChunks, decodedAudioBuffers,
                      totalDuration, currentPlaybackTime, nextStartTime,
                      streamStartTime, activeSources>>]_vars

\* an MP3 export has failed while audio is playing
C27_Witness ==
    /\ lastOp = "mp3Failed"
    /\ playbackState = "playing"
    /\ activeSources # <<>>
    /\ receivedAudioChunks # <<>>

\* the 32-bit little-endian number at byte offset off of a file
Field32(file, off) ==
    file[off + 1] + 256 * file[off + 2] + 65536 * file[off + 3] + 16777216 * file[off + 4]

\* the bytes of the chunks before chunk k of the store
OffsetOf(k) == TotalLength(SubSeq(receivedAudioChunks, 1, k - 1))

\* C28: the WAV file exported from a store of chunks totalling N bytes has
\* 44 + N bytes, the number 36 + N at offset 4 and N at offset 40, and after
\* the header the bytes of every chunk, in arrival order.
C28_WavLayout ==
    (lastOp = "handleDownloadWav" /\ receivedAudioChunks # <<>>)
    => LET N    == TotalLength(receivedAudioChunks)
           file == download.bytes
       IN  /\ download.kind = "wav"
           /\ Len(file) = 44 + N
           /\ Field32(file, 4) = 36 + N
           /\ Field32(file, 40) = N
           /\ \A k \in DOMAIN receivedAudioChunks :
                 \A j \in 1..Len(receivedAudioChunks[k].data) :
                     file[44 + OffsetOf(k) + j] = receivedAudioChunks[k].data[j]

\* the scenario: chunks totalling 2000 bytes give a file of 2044 bytes
C28_Witness ==
    /\ lastOp = "handleDownloadWav"
    /\ Len(receivedAudioChunks) = 2
    /\ TotalLength(receivedAudioChunks) = 2000
    /\ Len(download.bytes) = 2044

\* C29: the completion of a unit removes that unit, and only it, from the live
\* set and leaves nextStartTime, streamStartTime, the total duration, the
\* Timeline, the ChunkStore and the transport state as they were.
C29_CompletionOnlyDeregisters ==
    [][lastOp' = "onended"
       => /\ \E i \in 1..Len(activeSources) :
                /\ now >= EndOf(activeSources[i])
                /\ activeSources' = SubSeq(activeSources, 1, i - 1)
                                     \o SubSeq(activeSources, i + 1, Len(activeSources))
          /\ UNCHANGED <<nextStartTime, streamStartTime, totalDuration,
                         decodedAudioBuffers, receivedAudioChunks, playbackState>>]_vars

\* a unit has completed while another one is still live
C29_Witness ==
    /\ lastOp = "onended"
    /\ activeSources # <<>>
    /\ nextStartTime # 0

\* C30: a decode that completes while the state is 'paused' or 'stopped'
\* creates no unit and leaves nextStartTime, streamStartTime, the cursor and
\* the transport state as they were; a buffer is streamed only from 'playing'
\* or 'loading'.
C30_NoStreamingWhilePausedOrStopped ==
    [][/\ (lastOp' = "decodeResolved" /\ playbackState \in {"paused", "stopped"})
          => UNCHANGED <<activeSources, schedCount, nextStartTime, streamStartTime,
                         currentPlaybackTime, playbackState>>
       /\ StreamStep => playbackState \in {"playing", "loading"}]_vars

\* a decode has completed during a pause that followed a scheduled unit
C30_Witness ==
    /\ lastOp = "decodeResolved"
    /\ playbackState = "paused"
    /\ Len(Timeline) = 2
    /\ nextStartTime # 0
    /\ activeSources = <<>>

\* C31: while the state is 'playing' the output gain is at 1 or ramping to 1.
C31_AudibleWhilePlaying ==
    playbackState = "playing" => gainTarget = 1

\* the sessions that are connected and have not been stopped
Live == {i \in SessionIds : sessions[i] \in {"playing", "paused"}}

\* C32: a connection that resolves while the transport is 'stopped' (a reset
\* has happened since play was requested) leaves it 'stopped', with no session
\* held and none told to play; and never is more than one connected session
\* un-stopped.
C32_ResetCancelsConnect ==
    /\ [][(lastOp' = "connectResolved" /\ playbackState = "stopped")
          => /\ playbackState' = "stopped"
             /\ session' = 0
             /\ Live' = Live]_vars
    /\ [](Cardinality(Live) <= 1)

\* C33: every Timeline buffer was decoded from a chunk that is in the
\* ChunkStore, so the Timeline is not longer than the ChunkStore.
C33_TimelineWithinStore ==
    /\ \A k \in 1..Len(Timeline) :
          \E j \in 1..Len(receivedAudioChunks) :
              receivedAudioChunks[j].id = Timeline[k].chunk
    /\ Len(Timeline) <= Len(receivedAudioChunks)

\* unit u is being output at the current clock value
Audible(u) == u.start <= now /\ now < EndOf(u)

\* C34: while the state is 'playing', the cursor that updateProgress computes
\* is the Timeline position of the sample being output: the cumulative start
\* of the audible unit's buffer, plus its offset, plus the time since it
\* started.
C34_CursorIsAudiblePosition ==
    playbackState = "playing" =>
        \A i \in 1..Len(activeSources) :
            Audible(activeSources[i]) =>
                \A k \in 1..Len(Timeline) :
                    Timeline[k].chunk = activeSources[i].chunk =>
                        ClampedCursor(now, streamStartTime, totalDuration)
                          = StartOf(k) + activeSources[i].offset
                            + (now - activeSources[i].start)

\* C35: the cursor is never negative and never beyond the total duration.
C35_CursorWithinBounds ==
    0 <= currentPlaybackTime /\ currentPlaybackTime <= totalDuration

\* a progress update has clamped the cursor at the end of the audio
C35_Witness ==
    /\ lastOp = "updateProgress"
    /\ totalDuration > 0
    /\ now - streamStartTime > totalDuration
    /\ currentPlaybackTime = totalDuration

\* C36: a step that takes the state to 'playing' leaves a progress-update
\* callback pending.
C36_ProgressLoopWhilePlaying ==
    [][(playbackState # "playing" /\ playbackState' = "playing")
       => (rafLatest' \/ rafOther' > 0)]_vars

\* the list last sent to session s (a session that was sent nothing has none)
SentTo(s) == IF sent.to = s THEN sent.list ELSE <<>>

\* C37: while a session is held, the list most recently sent to it eventually
\* equals the current prompts of positive weight.
C37_PromptsEventuallySent ==
    [](session # 0 => <>(session = 0 \/ SentTo(session) = promptsToSend(prompts)))

====
